---- MODULE Spec2Model ----
(***************************************************************************)
(* The DynamoDB event store of eh-dynamo (src/eventstore.go): Save, Load,  *)
(* LoadAll, Replace, RenameEvent and CreateTable over one event table.     *)
(* Every request to the table is one atomic step; a call that issues       *)
(* several requests is several steps, so that calls of different callers   *)
(* interleave between requests as they do against the real table.          *)
(***************************************************************************)
EXTENDS Integers, Sequences, FiniteSets, TLC

(* ---------------------------------------------------------------- bounds *)

\* Highest version a partition of the table holds in the model.
MaxVersion == 2

\* Longest batch of events passed to one Save.
MaxBatch == 2

(* --------------------------------------------------------------- domains *)

\* The callers; each makes one call to the store.
Procs == {"p1", "p2", "p3"}

\* The aggregate identities (partition keys).
Aggs == {"a1", "a2"}

Versions == 1 .. MaxVersion

\* The last version the callers write or replace in an aggregate: the stream
\* of a1 goes up to MaxVersion; a2, which is there for what the operations
\* do across partitions, has a stream one version shorter.
LastVersion(a) == IF a = "a1" THEN MaxVersion ELSE MaxVersion - 1

None == "none"

\* The place of a record where there is none (a failed encoding).
NoRecord == [AggregateID |-> None, Version |-> 0]

\* The event types; "Legacy" has no registered event data.
EventTypes == {"Created", "Opened", "Legacy"}

\* eh.RegisterEventData as the program finds it: the Go type of the payload
\* each registered event type constructs.
RegisteredTypes == {"Created", "Opened"}

DataTypeOf(eventType) ==
  IF eventType = "Created" THEN "CreatedData" ELSE "OpenedData"

\* An event without data.
NilData == [type |-> "nil", val |-> 0]

\* A payload no attribute map can be made of (a struct with a channel).
BadData == [type |-> "chan", val |-> 0]

\* The encoded payload of an event without data.
NilRaw == <<>>

(* ------------------------------------------------- dynamodbattribute codec *)

\* dynamodbattribute.MarshalMap: the attribute map of a payload holds its
\* fields, not its Go type.
MarshalMap(data) ==
  IF data.type = "chan"
    THEN [err |-> "marshal", raw |-> NilRaw]
    ELSE [err |-> "nil", raw |-> <<"M", data.type, data.val>>]

\* dynamodbattribute.UnmarshalMap into a fresh value of Go type dataType:
\* an empty map leaves the zero value, a map of other fields is an error.
UnmarshalMap(raw, dataType) ==
  IF raw = NilRaw
    THEN [err |-> "nil", data |-> [type |-> dataType, val |-> 0]]
    ELSE IF raw[2] = dataType
      THEN [err |-> "nil", data |-> [type |-> dataType, val |-> raw[3]]]
      ELSE [err |-> "unmarshal", data |-> NilData]

(* ------------------------------------------------------------ the records *)

\* A record written one version above the version of its event.
newDBEventNextVersion(event) ==
  LET m == IF event.Data # NilData THEN MarshalMap(event.Data)
                                   ELSE [err |-> "nil", raw |-> NilRaw]
  IN IF m.err # "nil"
       THEN [err |-> "ErrCouldNotMarshalEvent", e |-> NoRecord]
       ELSE [err |-> "nil",
             e |-> [EventType     |-> event.EventType,
                    RawData       |-> m.raw,
                    Timestamp     |-> event.Timestamp,
                    AggregateType |-> event.AggregateType,
                    AggregateID   |-> event.AggregateID,
                    Version       |-> event.Version + 1,
                    Metadata      |-> event.Metadata]]

\* newDBEvent: the record written for an event.
newDBEvent(event) ==
  LET m == IF event.Data # NilData THEN MarshalMap(event.Data)
                                   ELSE [err |-> "nil", raw |-> NilRaw]
  IN IF m.err # "nil"
       THEN [err |-> "ErrCouldNotMarshalEvent", e |-> NoRecord]
       ELSE [err |-> "nil",
             e |-> [EventType     |-> event.EventType,
                    RawData       |-> m.raw,
                    Timestamp     |-> event.Timestamp,
                    AggregateType |-> event.AggregateType,
                    AggregateID   |-> event.AggregateID,
                    Version       |-> event.Version,
                    Metadata      |-> event.Metadata]]

\* A decoding that takes an event type without registered data for an
\* error.
DecodeEventStrict(dbEvent) ==
  LET known == dbEvent.EventType \in RegisteredTypes
      u == IF known THEN UnmarshalMap(dbEvent.RawData, DataTypeOf(dbEvent.EventType))
                    ELSE [err |-> "unmarshal", data |-> NilData]
  IN [err |-> u.err,
      ev  |-> [EventType     |-> dbEvent.EventType,
               Data          |-> u.data,
               Timestamp     |-> dbEvent.Timestamp,
               AggregateType |-> dbEvent.AggregateType,
               AggregateID   |-> dbEvent.AggregateID,
               Version       |-> dbEvent.Version,
               Metadata      |-> dbEvent.Metadata]]

\* The event{dbEvent} that buildEvents makes of one record: its payload is
\* decoded when the event type is registered, and left nil when it is not.
DecodeEvent(dbEvent) ==
  LET known == dbEvent.EventType \in RegisteredTypes
      u == IF known THEN UnmarshalMap(dbEvent.RawData, DataTypeOf(dbEvent.EventType))
                    ELSE [err |-> "nil", data |-> NilData]
  IN [err |-> u.err,
      ev  |-> [EventType     |-> dbEvent.EventType,
               Data          |-> u.data,
               Timestamp     |-> dbEvent.Timestamp,
               AggregateType |-> dbEvent.AggregateType,
               AggregateID   |-> dbEvent.AggregateID,
               Version       |-> dbEvent.Version,
               Metadata      |-> dbEvent.Metadata]]

\* buildEvents: the events of a list of records, or ErrCouldNotUnmarshalEvent
\* when one registered payload does not decode.
buildEvents(dbEvents) ==
  IF \E k \in 1 .. Len(dbEvents) : DecodeEvent(dbEvents[k]).err # "nil"
    THEN [err |-> "ErrCouldNotUnmarshalEvent", out |-> <<>>]
    ELSE [err |-> "nil",
          out |-> [k \in 1 .. Len(dbEvents) |-> DecodeEvent(dbEvents[k]).ev]]

(* -------------------------------------------------------------- the table *)

\* The table is the set of its items; (AggregateID, Version) is the key.
SameKey(r, a, v) == r.AggregateID = a /\ r.Version = v

ItemExists(st, a, v) == \E r \in st : SameKey(r, a, v)

Item(st, a, v) == CHOOSE r \in st : SameKey(r, a, v)

\* A put into a table keyed by AggregateID alone: the item takes the place
\* of every item of its aggregate.
PutItemHashOnly(st, e) ==
  {r \in st : r.AggregateID # e.AggregateID} \cup {e}

\* PutItem: the item takes the place of the item of its key, if any.
PutItem(st, e) ==
  {r \in st : ~SameKey(r, e.AggregateID, e.Version)} \cup {e}

\* The versions of aggregate a that the table holds.
StoredVersions(st, a) == {r.Version : r \in {x \in st : x.AggregateID = a}}

\* A range read that returns the partition from its highest version down.
RECURSIVE SortByVersionDescending(_)
SortByVersionDescending(items) ==
  IF items = {} THEN <<>>
  ELSE LET hi == CHOOSE r \in items : \A x \in items : r.Version >= x.Version
       IN <<hi>> \o SortByVersionDescending(items \ {hi})

\* The items of a partition in ascending order of the range key, as a range
\* read returns them.
RECURSIVE SortByVersion(_)
SortByVersion(items) ==
  IF items = {} THEN <<>>
  ELSE LET lo == CHOOSE r \in items : \A x \in items : r.Version <= x.Version
       IN <<lo>> \o SortByVersion(items \ {lo})

\* table.Get("AggregateID", id).All: the partition of id, by version.
QueryAll(st, id) == SortByVersion({r \in st : r.AggregateID = id})

(* -------------------------------------------------------------- the state *)

VARIABLES
  tableExists,  \* whether the event table exists
  store,        \* the table: the set of its records
  pc,           \* per caller: where its call stands
  call,         \* per caller: the call it makes, its progress and its result
                \* (pre: the versions its aggregate had when Save was called;
                \* ctx: whether the context passed to the call is cancelled)
  puts          \* per slot: the callers whose Save put succeeded there

vars == <<tableExists, store, pc, call, puts>>

NoCall ==
  [op |-> "none", events |-> <<>>, orig |-> 0, i |-> 0, id |-> None,
   from |-> None, to |-> None, keys |-> <<>>, resp |-> None,
   err |-> "pending", errVersion |-> 0, errAggregate |-> None,
   out |-> <<>>, pre |-> {}, ctx |-> "live"]

Init ==
  /\ tableExists \in BOOLEAN
  /\ store = {}
  /\ pc = [p \in Procs |-> "idle"]
  /\ call = [p \in Procs |-> NoCall]
  /\ puts = [a \in Aggs |-> [v \in Versions |-> {}]]

(* ----------------------------------------------------------- the callers *)

\* What caller p puts in the events it passes: each caller has its own
\* event type, payload, timestamp, aggregate type and metadata.
EventTypeOf(p) ==
  IF p = "p1" THEN "Created" ELSE IF p = "p2" THEN "Opened" ELSE "Legacy"

DataOf(p) ==
  IF p = "p1" THEN [type |-> "CreatedData", val |-> 1]
  ELSE IF p = "p2" THEN [type |-> "OpenedData", val |-> 2]
  ELSE [type |-> "CreatedData", val |-> 3]

TimestampOf(p) == IF p = "p1" THEN 1 ELSE IF p = "p2" THEN 2 ELSE 3

AggregateTypeOf(p) == IF p = "p2" THEN "T2" ELSE "T1"

MetadataOf(p) == IF p = "p1" THEN "m1" ELSE IF p = "p2" THEN "m2" ELSE "m3"

\* The eh.Event of caller p for aggregate a at version v with payload data.
Ev(p, a, v, data) ==
  [EventType     |-> EventTypeOf(p),
   Data          |-> data,
   Timestamp     |-> TimestampOf(p),
   AggregateType |-> AggregateTypeOf(p),
   AggregateID   |-> a,
   Version       |-> v,
   Metadata      |-> MetadataOf(p)]

\* The last event of a batch of n events for aggregate a after version orig:
\* the event in sequence, or, in a batch that starts an aggregate, one that
\* Save rejects (a payload that does not encode, the version before the one
\* in sequence, another aggregate's event).
LastEvents(p, a, orig, n) ==
  {Ev(p, a, orig + n, DataOf(p))}
  \cup (IF orig = 0
         THEN {Ev(p, a, orig + n, BadData), Ev(p, a, orig + n - 1, DataOf(p))}
              \cup (IF n > 1 THEN {Ev(p, b, orig + n, DataOf(p)) : b \in Aggs \ {a}}
                              ELSE {})
         ELSE {})

\* The arguments of Save: the empty batch, and the batches in sequence up to
\* their last event.
SaveInputs(p) ==
  {[events |-> <<>>, orig |-> 0]}
  \cup UNION { UNION { UNION {
        {[events |-> [k \in 1 .. n |-> IF k < n THEN Ev(p, a, orig + k, DataOf(p))
                                              ELSE last],
          orig |-> orig] : last \in LastEvents(p, a, orig, n)}
        : n \in 1 .. (IF LastVersion(a) - orig < MaxBatch THEN LastVersion(a) - orig
                                                         ELSE MaxBatch)}
      : orig \in 0 .. LastVersion(a) - 1}
    : a \in Aggs}

(* ------------------------------------------------------------------ Save *)

\* A call of caller p that has returned err.
Return(p, c, err) ==
  /\ pc' = [pc EXCEPT ![p] = "done"]
  /\ call' = [call EXCEPT ![p] = [c EXCEPT !.err = err]]

\* The eh.EventStoreError Save returns: it carries the aggregate of the
\* first event and the originalVersion of the call.
\* An error that reports the version of the slot Save stopped at.
SaveErrorVersionOfSlot(c) == c.orig + c.i + 1

\* AggregateVersion of the errors of Save: the originalVersion of the call.
SaveErrorVersion(c) == c.orig

ReturnSaveError(p, c, err) ==
  Return(p, [c EXCEPT !.errAggregate = c.events[1].AggregateID,
                      !.errVersion = SaveErrorVersion(c)], err)

\* An error mapping that does not tell the failed condition apart.
PutErrorUnmapped(putErr) == "StorageError"

\* The error Save returns when its put failed with putErr: a failed
\* condition is ErrCouldNotSaveAggregate, any other error is passed on.
PutError(putErr) ==
  IF putErr = "ConditionalCheckFailedException"
    THEN "ErrCouldNotSaveAggregate"
    ELSE "StorageError"

\* A put that leaves the condition out: it writes over the item of the key.
PutUnconditional(st, e) == [err |-> "nil", st |-> PutItem(st, e)]

\* A put whose condition is read on the partition instead of the slot: it
\* is refused when the aggregate has any record.
PutIfNotExistsInPartition(st, e) ==
  IF \E r \in st : r.AggregateID = e.AggregateID
    THEN [err |-> "ConditionalCheckFailedException", st |-> st]
    ELSE [err |-> "nil", st |-> PutItem(st, e)]

\* table.Put(e).If("attribute_not_exists(AggregateID) AND
\* attribute_not_exists(Version)"): the condition is read on the item of e's
\* key, and holds when the table has no such item.
PutIfNotExists(st, e) ==
  IF ItemExists(st, e.AggregateID, e.Version)
    THEN [err |-> "ConditionalCheckFailedException", st |-> st]
    ELSE [err |-> "nil", st |-> PutItem(st, e)]

\* One turn of Save's loop for call c of caller p: the checks of the next
\* event, its record, and its conditional put. fail: the put fails for a
\* reason of the service or the network.
SaveEvent(p, c, fail) ==
  LET event == c.events[c.i + 1]
      version == c.orig + c.i
      n == newDBEvent(event)
      w == PutIfNotExists(store, n.e)
  IN IF event.AggregateID # c.events[1].AggregateID
       THEN /\ ReturnSaveError(p, c, "ErrMismatchedEventAggregateIDs")
            /\ UNCHANGED <<store, puts>>
     ELSE IF event.Version # version + 1
       THEN /\ ReturnSaveError(p, c, "ErrIncorrectEventVersion")
            /\ UNCHANGED <<store, puts>>
     ELSE IF n.err # "nil"
       THEN /\ Return(p, c, n.err)
            /\ UNCHANGED <<store, puts>>
     ELSE IF fail \/ ~tableExists
       THEN /\ ReturnSaveError(p, [c EXCEPT !.resp = "RequestFailure"],
                               PutError("RequestFailure"))
            /\ UNCHANGED <<store, puts>>
     ELSE IF w.err # "nil"
       THEN /\ ReturnSaveError(p, [c EXCEPT !.resp = w.err], PutError(w.err))
            /\ UNCHANGED <<store, puts>>
     ELSE /\ store' = w.st
          /\ puts' = [puts EXCEPT ![event.AggregateID][event.Version] = @ \cup {p}]
          /\ IF c.i + 1 = Len(c.events)
               THEN Return(p, [c EXCEPT !.i = c.i + 1, !.resp = "nil"], "nil")
               ELSE /\ pc' = [pc EXCEPT ![p] = "Save"]
                    /\ call' = [call EXCEPT ![p] = [c EXCEPT !.i = c.i + 1,
                                                             !.resp = "nil"]]

\* Save is called: the empty batch is refused, any other batch starts the
\* loop with its first event.
SaveCall(p) ==
  /\ pc[p] = "idle"
  /\ \E in \in SaveInputs(p), fail \in BOOLEAN :
       LET c == [NoCall EXCEPT !.op = "Save", !.events = in.events,
                               !.orig = in.orig]
       IN IF Len(in.events) = 0
            THEN /\ Return(p, c, "ErrMissingEvents")
                 /\ UNCHANGED <<store, puts>>
            ELSE SaveEvent(p,
                   [c EXCEPT !.id = in.events[1].AggregateID,
                             !.pre = StoredVersions(store, in.events[1].AggregateID)],
                   fail)
  /\ UNCHANGED tableExists

\* Save goes on with the next event of its batch.
SaveLoop(p) ==
  /\ pc[p] = "Save"
  /\ \E fail \in BOOLEAN : SaveEvent(p, call[p], fail)
  /\ UNCHANGED tableExists

(* ------------------------------------------------------- Load and LoadAll *)

\* How a read of the table can end: no error; the table does not exist; the
\* service refuses the request for another reason (an awserr.RequestFailure
\* with another code); the request never gets an answer (an error that is
\* no awserr.RequestFailure).
ReadErrors ==
  IF tableExists THEN {"nil", "RequestFailure", "RequestError"}
                 ELSE {"ResourceNotFoundException", "RequestError"}

\* What Load returns for aggregate id when its range read ended with read
\* and left dbEvents. The else-branch tests the err of the type assertion,
\* which is nil for an error that is no awserr.RequestFailure.
LoadResult(read, dbEvents) ==
  IF read = "ResourceNotFoundException"
    THEN [err |-> "nil", out |-> <<>>]
  ELSE IF read \in {"RequestFailure"}
    THEN [err |-> "StorageError", out |-> <<>>]
  ELSE buildEvents(dbEvents)

\* Load: one strongly consistent range read of the partition, then buildEvents.
Load(p) ==
  /\ pc[p] = "idle"
  /\ \E id \in Aggs, read \in ReadErrors :
       LET dbEvents == IF read = "nil" THEN QueryAll(store, id) ELSE <<>>
           r == LoadResult(read, dbEvents)
       IN Return(p, [NoCall EXCEPT !.op = "Load", !.id = id, !.resp = read,
                                   !.out = r.out,
                                   !.errAggregate =
                                      IF r.err = "StorageError" THEN id ELSE None],
                 r.err)
  /\ UNCHANGED <<tableExists, store, puts>>

\* The orders in which a scan can go through the partitions.
AggOrders ==
  {o \in [1 .. Cardinality(Aggs) -> Aggs] : \A a \in Aggs : \E k \in DOMAIN o : o[k] = a}

\* table.Scan().All: every partition in the order of the scan, each by version.
RECURSIVE ScanFrom(_, _, _)
ScanFrom(st, order, k) ==
  IF k > Len(order) THEN <<>>
  ELSE QueryAll(st, order[k]) \o ScanFrom(st, order, k + 1)

ScanAll(st, order) == ScanFrom(st, order, 1)

\* What LoadAll returns when its scan ended with read and left dbEvents.
LoadAllResult(read, dbEvents) ==
  IF read # "nil" THEN [err |-> "StorageError", out |-> <<>>]
                  ELSE buildEvents(dbEvents)

\* LoadAll: one strongly consistent scan of the table, then buildEvents.
LoadAll(p) ==
  /\ pc[p] = "idle"
  /\ \E order \in AggOrders, read \in ReadErrors :
       LET dbEvents == IF read = "nil" THEN ScanAll(store, order) ELSE <<>>
           r == LoadAllResult(read, dbEvents)
       IN Return(p, [NoCall EXCEPT !.op = "LoadAll", !.resp = read,
                                   !.out = r.out], r.err)
  /\ UNCHANGED <<tableExists, store, puts>>

(* --------------------------------------------------------------- Replace *)

\* The events passed to Replace.
ReplaceInputs(p) ==
  UNION {{Ev(p, a, v, d) : v \in 1 .. LastVersion(a), d \in {DataOf(p), BadData}}
         : a \in Aggs}

\* A replace that writes the record in the place of its whole aggregate.
PutIfExistsOverAggregate(st, e) ==
  IF ItemExists(st, e.AggregateID, e.Version)
    THEN [err |-> "nil", st |-> PutItemHashOnly(st, e)]
    ELSE [err |-> "ConditionalCheckFailedException", st |-> st]

\* A replace whose condition is read on the partition instead of the slot:
\* it writes when the aggregate has any record.
PutIfPartitionExists(st, e) ==
  IF \E r \in st : r.AggregateID = e.AggregateID
    THEN [err |-> "nil", st |-> PutItem(st, e)]
    ELSE [err |-> "ConditionalCheckFailedException", st |-> st]

\* table.Put(e).If("attribute_exists(AggregateID) AND attribute_exists(Version)"):
\* the condition holds when the table has an item of e's key, which e replaces.
PutIfExists(st, e) ==
  IF ItemExists(st, e.AggregateID, e.Version)
    THEN [err |-> "nil", st |-> PutItem(st, e)]
    ELSE [err |-> "ConditionalCheckFailedException", st |-> st]

\* Replace is called: it counts the records of the aggregate and builds the
\* record of the event.
ReplaceCall(p) ==
  /\ pc[p] = "idle"
  /\ \E event \in ReplaceInputs(p), fail \in BOOLEAN :
       LET c == [NoCall EXCEPT !.op = "Replace", !.events = <<event>>,
                               !.id = event.AggregateID]
           count == Cardinality(StoredVersions(store, event.AggregateID))
       IN IF fail \/ ~tableExists THEN Return(p, c, "StorageError")
          ELSE IF count = 0 THEN Return(p, c, "ErrAggregateNotFound")
          ELSE IF newDBEvent(event).err # "nil"
            THEN Return(p, c, newDBEvent(event).err)
          ELSE /\ pc' = [pc EXCEPT ![p] = "Replace"]
               /\ call' = [call EXCEPT ![p] = c]
  /\ UNCHANGED <<tableExists, store, puts>>

\* Replace puts the record on condition that the slot is taken.
ReplacePut(p) ==
  /\ pc[p] = "Replace"
  /\ \E fail \in BOOLEAN :
       LET c == call[p]
           w == PutIfExists(store, newDBEvent(c.events[1]).e)
       IN IF fail THEN Return(p, c, "StorageError") /\ UNCHANGED store
          ELSE IF w.err # "nil"
            THEN Return(p, c, "ErrMissingEvent") /\ UNCHANGED store
          ELSE Return(p, [c EXCEPT !.i = 1], "nil") /\ store' = w.st
  /\ UNCHANGED <<tableExists, puts>>

(* ----------------------------------------------------------- RenameEvent *)

\* The keys of the records of a list.
KeysOf(dbEvents) ==
  [k \in 1 .. Len(dbEvents) |-> <<dbEvents[k].AggregateID, dbEvents[k].Version>>]

\* table.Scan().Filter("EventType = ?", from): the records of that type.
ScanFilter(st, order, from) ==
  SelectSeq(ScanAll(st, order), LAMBDA r : r.EventType = from)

\* An update that leaves the condition out: it sets the type of the item
\* whatever type the item has.
UpdateUnconditioned(st, key, from, to) ==
  IF ItemExists(st, key[1], key[2])
    THEN [err |-> "nil",
          st |-> PutItem(st, [Item(st, key[1], key[2]) EXCEPT !.EventType = to])]
    ELSE [err |-> "ConditionalCheckFailedException", st |-> st]

\* An update keyed by AggregateID alone: it sets the type of every item of
\* the aggregate.
UpdateIfWholePartition(st, key, from, to) ==
  IF ItemExists(st, key[1], key[2]) /\ Item(st, key[1], key[2]).EventType = from
    THEN [err |-> "nil",
          st |-> {IF r.AggregateID = key[1] THEN [r EXCEPT !.EventType = to] ELSE r
                    : r \in st}]
    ELSE [err |-> "ConditionalCheckFailedException", st |-> st]

\* An update that writes the item anew from the attributes it names: the
\* metadata of the item is lost.
UpdateAsPut(st, key, from, to) ==
  IF ItemExists(st, key[1], key[2]) /\ Item(st, key[1], key[2]).EventType = from
    THEN [err |-> "nil",
          st |-> PutItem(st, [Item(st, key[1], key[2]) EXCEPT !.EventType = to,
                                                               !.Metadata = None])]
    ELSE [err |-> "ConditionalCheckFailedException", st |-> st]

\* table.Update(key).If("EventType = ?", from).Set("EventType", to): the
\* condition is read on the item of the key as it is now.
UpdateIf(st, key, from, to) ==
  IF ItemExists(st, key[1], key[2]) /\ Item(st, key[1], key[2]).EventType = from
    THEN [err |-> "nil",
          st |-> PutItem(st, [Item(st, key[1], key[2]) EXCEPT !.EventType = to])]
    ELSE [err |-> "ConditionalCheckFailedException", st |-> st]

\* RenameEvent is called: it scans the table for the records of type from.
RenameEventCall(p) ==
  /\ pc[p] = "idle"
  /\ \E from \in EventTypes, to \in RegisteredTypes, order \in AggOrders,
        fail \in BOOLEAN :
       LET c == [NoCall EXCEPT !.op = "RenameEvent", !.from = from, !.to = to]
           dbEvents == ScanFilter(store, order, from)
       IN IF fail \/ ~tableExists THEN Return(p, c, "StorageError")
          ELSE IF Len(dbEvents) = 0 THEN Return(p, c, "nil")
          ELSE /\ pc' = [pc EXCEPT ![p] = "RenameEvent"]
               /\ call' = [call EXCEPT ![p] = [c EXCEPT !.keys = KeysOf(dbEvents)]]
  /\ UNCHANGED <<tableExists, store, puts>>

\* RenameEvent updates the next record of its scan.
RenameEventUpdate(p) ==
  /\ pc[p] = "RenameEvent"
  /\ \E fail \in BOOLEAN :
       LET c == call[p]
           w == UpdateIf(store, c.keys[c.i + 1], c.from, c.to)
       IN IF fail THEN Return(p, c, "StorageError") /\ UNCHANGED store
          ELSE IF w.err # "nil" THEN Return(p, c, w.err) /\ UNCHANGED store
          ELSE /\ store' = w.st
               /\ IF c.i + 1 = Len(c.keys)
                    THEN Return(p, [c EXCEPT !.i = c.i + 1], "nil")
                    ELSE /\ pc' = [pc EXCEPT ![p] = "RenameEvent"]
                         /\ call' = [call EXCEPT ![p] = [c EXCEPT !.i = c.i + 1]]
  /\ UNCHANGED <<tableExists, puts>>

(* ----------------------------------------------------------- the context *)

\* The caller cancels the context it passed (or its deadline passes) while
\* its call is between two requests. No operation reads the context before
\* a request: the requests are run with Run(), not RunWithContext(ctx).
\* Spec and SpecSeq are the calls whose contexts stay live; SpecCtx has the
\* cancellations.
Cancel(p) ==
  /\ pc[p] \in {"Save", "Replace", "RenameEvent"}
  /\ call[p].ctx = "live"
  /\ call' = [call EXCEPT ![p].ctx = "cancelled"]
  /\ UNCHANGED <<tableExists, store, pc, puts>>

(* ----------------------------------------------------------- CreateTable *)

\* CreateTable: the table exists afterwards; creating an existing table fails.
CreateTable ==
  /\ ~tableExists
  /\ tableExists' = TRUE
  /\ UNCHANGED <<store, pc, call, puts>>

Next ==
  \/ \E p \in Procs : SaveCall(p)
  \/ \E p \in Procs : SaveLoop(p)
  \/ \E p \in Procs : Load(p)
  \/ \E p \in Procs : LoadAll(p)
  \/ \E p \in Procs : ReplaceCall(p)
  \/ \E p \in Procs : ReplacePut(p)
  \/ \E p \in Procs : RenameEventCall(p)
  \/ \E p \in Procs : RenameEventUpdate(p)
  \/ CreateTable

Spec == Init /\ [][Next]_vars

\* The callers one after the other: a call begins when no call is under way.
InFlight == \E q \in Procs : pc[q] \notin {"idle", "done"}

NextSeq ==
  \/ \E p \in Procs : ~InFlight /\ SaveCall(p)
  \/ \E p \in Procs : SaveLoop(p)
  \/ \E p \in Procs : ~InFlight /\ Load(p)
  \/ \E p \in Procs : ~InFlight /\ LoadAll(p)
  \/ \E p \in Procs : ~InFlight /\ ReplaceCall(p)
  \/ \E p \in Procs : ReplacePut(p)
  \/ \E p \in Procs : ~InFlight /\ RenameEventCall(p)
  \/ \E p \in Procs : RenameEventUpdate(p)
  \/ ~InFlight /\ CreateTable

SpecSeq == Init /\ [][NextSeq]_vars

\* The calls with contexts that the callers may cancel under way.
NextCtx ==
  \/ Next
  \/ \E p \in Procs : Cancel(p)

SpecCtx == Init /\ [][NextCtx]_vars

(* ------------------------------------------------------------ properties *)

\* The Save calls, and the slot a Save call stopped at.
IsSave(p) == call[p].op = "Save" /\ Len(call[p].events) > 0

SaveAgg(p) == call[p].events[1].AggregateID

FailedEvent(p) == call[p].events[call[p].i + 1]

\* The Save of caller p has returned: with success, or with err.
SaveDone(p) == IsSave(p) /\ pc[p] = "done"

SaveFailed(p) == SaveDone(p) /\ call[p].err # "nil"

\* Caller p passed Save an originalVersion that its aggregate, a run 1..N
\* of versions, had or has had: one it got from a Load.
FromLoad(p) ==
  \E n \in 0 .. MaxVersion : call[p].pre = 1 .. n /\ call[p].orig <= n

\* Caller p's conditional put at slot (a, v) was refused by the table.
LostSlot(p, a, v) ==
  /\ SaveFailed(p)
  /\ call[p].resp = "ConditionalCheckFailedException"
  /\ SameKey(FailedEvent(p), a, v)

\* A step of Save by caller p.
SaveStep(p) ==
  /\ pc[p] \in {"idle", "Save"}
  /\ call'[p].op = "Save"
  /\ call'[p] # call[p]

\* C1: under any interleaving of Save calls, at most one conditional put
\* ever succeeds at a slot (aggregate_id, version), and no step of Save
\* changes or removes a record the table already holds: the record of the
\* first writer stays.
C1_AtMostOnePutPerSlot ==
  [][/\ \A a \in Aggs, v \in Versions : Cardinality(puts'[a][v]) <= 1
     /\ \A p \in Procs : SaveStep(p) => store \subseteq store']_vars

\* C1 witness: two callers have put at the same slot; one holds it and the
\* other was refused.
C1_Witness ==
  \E p \in Procs, q \in Procs, a \in Aggs, v \in Versions :
    /\ p # q
    /\ puts[a][v] = {p}
    /\ LostSlot(q, a, v)
    /\ Item(store, a, v).Metadata = MetadataOf(p)

\* C2, as claimed: when Save calls that race on one slot have all returned,
\* exactly one of them has returned success and every other one
\* ErrCouldNotSaveAggregate. It is stated of callers that all passed an
\* originalVersion their aggregate has had, and whose puts all reached the
\* table.
C2_Original_ExactlyOneRacerSucceeds ==
  \A a \in Aggs, v \in Versions :
    LET racers == {p \in Procs : LostSlot(p, a, v)} \cup puts[a][v]
    IN (/\ Cardinality(racers) >= 2
        /\ \A p \in Procs : IsSave(p) => FromLoad(p)
        /\ \A p \in racers : /\ SaveDone(p)
                               /\ call[p].err \in {"nil", "ErrCouldNotSaveAggregate"})
       => Cardinality({p \in racers : call[p].err = "nil"}) = 1

\* C2, amended: of the Save calls that race on one slot, exactly one has its
\* put at that slot succeed; every call whose put the table refuses returns
\* ErrCouldNotSaveAggregate; a call returns success only when its own put
\* took every slot of its batch (the call that took the slot may still fail
\* at a later event); the table never holds two records of one key.
C2_OnePutWinsOthersConflict ==
  \A a \in Aggs, v \in Versions :
    /\ Cardinality({r \in store : SameKey(r, a, v)}) <= 1
    /\ Cardinality(puts[a][v]) <= 1
    /\ \A p \in Procs :
         /\ LostSlot(p, a, v) =>
              /\ call[p].err = "ErrCouldNotSaveAggregate"
              /\ Cardinality(puts[a][v] \ {p}) = 1
              /\ ItemExists(store, a, v)
         /\ (SaveDone(p) /\ call[p].err = "nil"
               /\ \E k \in 1 .. Len(call[p].events) :
                     SameKey(call[p].events[k], a, v))
              => p \in puts[a][v]

\* C2 witness: three calls raced on one slot; one put took it, the two
\* others returned the conflict error.
C2_Witness ==
  \E a \in Aggs, v \in Versions :
    /\ Cardinality(puts[a][v]) = 1
    /\ Cardinality({p \in Procs : LostSlot(p, a, v)
                                   /\ call[p].err = "ErrCouldNotSaveAggregate"}) = 2

\* C3, as claimed: in every state the versions stored for an aggregate are
\* a run 1..N without gaps.
C3_Original_VersionsContiguous ==
  \A a \in Aggs :
    StoredVersions(store, a) = 1 .. Cardinality(StoredVersions(store, a))

\* The step in which the Save of caller p returns.
SaveReturns(p) ==
  /\ pc[p] \in {"idle", "Save"}
  /\ pc'[p] = "done"
  /\ call'[p].op = "Save"

\* What a Load of aggregate id returns when its range read of table st succeeds.
LoadOf(st, id) == LoadResult("nil", QueryAll(st, id))

\* C4, as claimed: when a Save with originalVersion 0 on an aggregate
\* without records returns success, Load of the aggregate returns exactly
\* the versions 1..n in ascending order, each with the payload passed to Save.
C4_Original_LoadReturnsBatchAsPassed ==
  [][\A p \in Procs :
       (/\ SaveReturns(p)
        /\ call'[p].err = "nil"
        /\ call'[p].orig = 0
        /\ call'[p].pre = {})
       => LET c == call'[p]
              r == LoadOf(store', c.id)
          IN /\ r.err = "nil"
             /\ Len(r.out) = Len(c.events)
             /\ \A k \in 1 .. Len(c.events) :
                  /\ r.out[k].Version = k
                  /\ r.out[k].Data = c.events[k].Data]_vars

\* C4, amended: when such a Save returns success, a Load whose range read
\* succeeds returns exactly the versions 1..n in ascending order; an event
\* whose type is registered for its payload carries the payload passed to
\* Save, and an event whose type is not registered carries no payload.
C4_LoadReturnsBatchAsDecoded ==
  [][\A p \in Procs :
       (/\ SaveReturns(p)
        /\ call'[p].err = "nil"
        /\ call'[p].orig = 0
        /\ call'[p].pre = {})
       => LET c == call'[p]
              r == LoadOf(store', c.id)
          IN /\ r.err = "nil"
             /\ Len(r.out) = Len(c.events)
             /\ \A k \in 1 .. Len(c.events) :
                  LET passed == c.events[k]
                  IN /\ r.out[k].Version = k
                     /\ r.out[k].AggregateID = c.id
                     /\ (passed.EventType \in RegisteredTypes
                           /\ passed.Data.type = DataTypeOf(passed.EventType))
                          => r.out[k].Data = passed.Data
                     /\ passed.EventType \notin RegisteredTypes
                          => r.out[k].Data = NilData]_vars

\* C4 witness: a Save of a full batch on a fresh aggregate returned success
\* and a Load of the aggregate returned versions 1..n with its payloads.
C4_Witness ==
  \E p \in Procs, q \in Procs :
    /\ SaveDone(p) /\ call[p].err = "nil"
    /\ call[p].orig = 0 /\ call[p].pre = {}
    /\ Len(call[p].events) >= 2
    /\ call[q].op = "Load" /\ call[q].id = SaveAgg(p)
    /\ call[q].resp = "nil" /\ call[q].err = "nil"
    /\ Len(call[q].out) = Len(call[p].events)
    /\ \A k \in 1 .. Len(call[p].events) :
         /\ call[q].out[k].Version = k
         /\ call[q].out[k].Data = call[p].events[k].Data

\* The versions at which the Save of caller p has put a record.
PutsOf(p, a) == {v \in Versions : p \in puts[a][v]}

\* C5, as claimed, for one of the causes it names, the refused conditional
\* put: when a Save with versions v+1..v+k on an aggregate that held 1..v
\* fails at event j, a Load afterwards returns exactly the versions
\* 1..v+j-1. It is stated of the table as the failing Save leaves it, with
\* every caller passing an originalVersion from a Load.
C5_Original_FailedSaveLeavesPrefixOnly ==
  [][\A p \in Procs :
       (/\ SaveReturns(p)
        /\ call'[p].err = "ErrCouldNotSaveAggregate"
        /\ Len(call'[p].events) > 0
        /\ call'[p].pre = 1 .. call'[p].orig
        /\ \A q \in Procs : call'[q].op = "Save" /\ Len(call'[q].events) > 0
                              => \E n \in 0 .. MaxVersion :
                                   /\ call'[q].pre = 1 .. n
                                   /\ call'[q].orig <= n)
       => StoredVersions(store', call'[p].id)
            = 1 .. (call'[p].orig + call'[p].i)]_vars

\* C5, amended: when a Save with versions v+1..v+k fails at event j, the
\* records it has written are those at v+1..v+j-1 and no other; they are
\* not rolled back, so the partition holds them afterwards; and when the
\* cause is a refused conditional put, the partition holds version v+j as
\* well, written by another call, so that a Load returns more than the
\* committed prefix.
C5_FailedSaveKeepsItsPrefix ==
  \A p \in Procs :
    SaveFailed(p) =>
      LET c == call[p]
      IN /\ \A k \in 1 .. c.i : ItemExists(store, c.id, c.orig + k)
         /\ PutsOf(p, c.id) = (c.orig + 1) .. (c.orig + c.i)
         /\ \A a \in Aggs \ {c.id} : PutsOf(p, a) = {}
         /\ c.resp = "ConditionalCheckFailedException" =>
              /\ ItemExists(store, c.id, c.orig + c.i + 1)
              /\ p \notin puts[c.id][c.orig + c.i + 1]

\* C5 witness: a Save failed at its second event on a refused put, its
\* first event written.
C5_Witness ==
  \E p \in Procs :
    /\ SaveFailed(p)
    /\ call[p].i >= 1
    /\ call[p].resp = "ConditionalCheckFailedException"
    /\ ItemExists(store, call[p].id, call[p].orig + 1)

\* C6, as claimed: when Save returns a validation error, the call has
\* issued no write.
C6_Original_ValidationErrorWritesNothing ==
  \A p \in Procs :
    (/\ call[p].op = "Save"
     /\ call[p].err \in {"ErrMissingEvents", "ErrMismatchedEventAggregateIDs",
                         "ErrIncorrectEventVersion"})
    => /\ call[p].i = 0
       /\ \A a \in Aggs : PutsOf(p, a) = {}

\* C7, as claimed: the conflict error of Save reports the aggregate and the
\* version of the slot at which the put was refused.
C7_Original_ConflictCitesSlotVersion ==
  \A p \in Procs :
    (SaveFailed(p) /\ call[p].err = "ErrCouldNotSaveAggregate")
    => /\ call[p].errAggregate = FailedEvent(p).AggregateID
       /\ call[p].errVersion = FailedEvent(p).Version

\* C7, amended: the conflict error of Save reports the aggregate of the slot
\* at which the put was refused and the originalVersion passed to Save; the
\* slot of a conflict at the j-th event of the batch is at version
\* originalVersion + j.
C7_ConflictCitesOriginalVersion ==
  \A p \in Procs :
    (SaveFailed(p) /\ call[p].err = "ErrCouldNotSaveAggregate")
    => /\ call[p].errAggregate = FailedEvent(p).AggregateID
       /\ call[p].errVersion = call[p].orig
       /\ FailedEvent(p).Version = call[p].errVersion + call[p].i + 1

\* C7 witness: a put refused at the second event of a batch.
C7_Witness ==
  \E p \in Procs :
    /\ SaveFailed(p)
    /\ call[p].err = "ErrCouldNotSaveAggregate"
    /\ call[p].i = 1
    /\ call[p].errVersion = call[p].orig

\* C8, as claimed: Load returns the empty sequence and no error when the
\* table is not found, and an error for every other failure of the range
\* read.
C8_Original_LoadSurfacesReadFailures ==
  \A p \in Procs :
    (call[p].op = "Load" /\ pc[p] = "done") =>
      /\ call[p].resp = "ResourceNotFoundException"
           => call[p].err = "nil" /\ call[p].out = <<>>
      /\ call[p].resp \in {"RequestFailure", "RequestError"}
           => call[p].err # "nil"

\* C9, as claimed: once a Save has returned success having written version
\* v, every Load of the aggregate that begins afterwards and returns a
\* sequence returns one with a record of version v.
C9_Original_LoadSeesSavedVersions ==
  [][\A q \in Procs :
       (/\ pc[q] = "idle"
        /\ call'[q].op = "Load"
        /\ call'[q].err = "nil")
       => \A p \in Procs :
            (SaveDone(p) /\ call[p].err = "nil" /\ call[p].id = call'[q].id)
            => \A k \in 1 .. Len(call[p].events) :
                 \E j \in 1 .. Len(call'[q].out) :
                   call'[q].out[j].Version = call[p].events[k].Version]_vars

\* The step in which the Replace of caller p writes its record.
ReplaceSucceeds(p) == pc[p] = "Replace" /\ call'[p].err = "nil"

\* C10, as claimed: a successful Replace changes the payload, event type,
\* timestamp and metadata of the record at the slot and nothing else: not
\* its key, not its aggregate type, not another record.
C10_Original_ReplaceKeepsOtherAttributes ==
  [][\A p \in Procs :
       ReplaceSucceeds(p) =>
         LET ev == call[p].events[1]
             old == Item(store, ev.AggregateID, ev.Version)
             new == Item(store', ev.AggregateID, ev.Version)
         IN /\ new.AggregateID = old.AggregateID
            /\ new.Version = old.Version
            /\ new.AggregateType = old.AggregateType
            /\ store' \ {new} = store \ {old}]_vars

\* C10, amended: a successful Replace puts the record of the event passed
\* in the place of the record at the slot: event type, payload, timestamp,
\* metadata and aggregate type are the event's, aggregate_id and version
\* are those of the slot, and every other record of the table is unchanged.
C10_ReplaceOverwritesOneRecord ==
  [][\A p \in Procs :
       ReplaceSucceeds(p) =>
         LET ev == call[p].events[1]
             old == Item(store, ev.AggregateID, ev.Version)
             new == Item(store', ev.AggregateID, ev.Version)
         IN /\ ItemExists(store, ev.AggregateID, ev.Version)
            /\ new.AggregateID = old.AggregateID
            /\ new.Version = old.Version
            /\ new.EventType = ev.EventType
            /\ new.RawData = MarshalMap(ev.Data).raw
            /\ new.Timestamp = ev.Timestamp
            /\ new.Metadata = ev.Metadata
            /\ new.AggregateType = ev.AggregateType
            /\ store' \ {new} = store \ {old}]_vars

\* C10 witness: a Replace has written over the record of another caller,
\* of another aggregate type, and the table holds a second record.
C10_Witness ==
  \E p \in Procs, q \in Procs :
    /\ call[p].op = "Replace" /\ pc[p] = "done" /\ call[p].err = "nil"
    /\ LET ev == call[p].events[1]
       IN /\ puts[ev.AggregateID][ev.Version] = {q}
          /\ AggregateTypeOf(q) # AggregateTypeOf(p)
          /\ Item(store, ev.AggregateID, ev.Version).AggregateType
               = AggregateTypeOf(p)
    /\ Cardinality(store) >= 2

\* The step in which Replace is called by caller p, and the step of its put.
ReplaceCalled(p) == pc[p] = "idle" /\ call'[p].op = "Replace"

ReplacePuts(p) == pc[p] = "Replace" /\ pc'[p] = "done"

\* C11: when the storage answers and the event encodes, Replace returns
\* ErrAggregateNotFound when the aggregate of the event has no record, and
\* ErrMissingEvent when the aggregate has records and none at the slot of
\* the event; it returns them in no other case, and the table is unchanged
\* in both.
C11_ReplaceNotFoundAndMissing ==
  [][\A p \in Procs :
       /\ ReplaceCalled(p) =>
            LET c == call'[p]
                ev == c.events[1]
                count == Cardinality(StoredVersions(store, ev.AggregateID))
            IN /\ (c.err # "StorageError" /\ count = 0)
                    => /\ pc'[p] = "done"
                       /\ c.err = "ErrAggregateNotFound"
               /\ (c.err # "StorageError" /\ count > 0
                     /\ newDBEvent(ev).err = "nil")
                    => pc'[p] = "Replace"
               /\ c.err = "ErrAggregateNotFound" => count = 0
               /\ c.err # "ErrMissingEvent"
               /\ store' = store
       /\ ReplacePuts(p) =>
            LET c == call'[p]
                ev == c.events[1]
                taken == ItemExists(store, ev.AggregateID, ev.Version)
            IN /\ (c.err # "StorageError" /\ ~taken)
                    => c.err = "ErrMissingEvent"
               /\ c.err = "ErrMissingEvent"
                    => /\ ~taken
                       /\ StoredVersions(store, ev.AggregateID) # {}
                       /\ store' = store
               /\ c.err # "ErrAggregateNotFound"]_vars

\* C11 witness: a Replace has returned ErrMissingEvent for an aggregate with
\* records and none at its slot while no other caller made a corrector
\* call, and the table holds what the Save before it wrote.
C11_Witness ==
  \E p \in Procs :
    /\ call[p].op = "Replace" /\ pc[p] = "done"
    /\ call[p].err = "ErrMissingEvent"
    /\ \A q \in Procs \ {p} : call[q].op \notin {"Replace", "RenameEvent"}
    /\ StoredVersions(store, call[p].id) # {}
    /\ ~ItemExists(store, call[p].id, call[p].events[1].Version)

\* A step of the update loop of the RenameEvent of caller p, the key it
\* updates and the item of that key.
RenameUpdates(p) == pc[p] = "RenameEvent" /\ call'[p] # call[p]

RenameKey(p) == call[p].keys[call[p].i + 1]

RenameItem(p) == Item(store, RenameKey(p)[1], RenameKey(p)[2])

\* C12: an update of RenameEvent(from, to) takes effect only on a record
\* whose event_type is from at the instant of the update, and then changes
\* that type and nothing else; when the type of the record is no longer the
\* one the scan saw (a concurrent Replace or RenameEvent has changed it),
\* the record is left as it is and RenameEvent returns an error.
C12_RenameUpdatesOnlyObservedType ==
  [][\A p \in Procs :
       RenameUpdates(p) =>
         /\ ItemExists(store, RenameKey(p)[1], RenameKey(p)[2])
         /\ store' # store =>
              /\ RenameItem(p).EventType = call[p].from
              /\ store' = PutItem(store, [RenameItem(p) EXCEPT
                                            !.EventType = call[p].to])
         /\ RenameItem(p).EventType # call[p].from =>
              /\ store' = store
              /\ pc'[p] = "done"
              /\ call'[p].err \notin {"nil", "pending"}]_vars

\* C12 witness: a RenameEvent was refused at a record that a Replace of
\* another caller had written with another type after the scan; the record
\* is as the Replace wrote it.
C12_Witness ==
  \E p \in Procs, q \in Procs :
    /\ p # q
    /\ call[p].op = "RenameEvent" /\ pc[p] = "done"
    /\ call[p].err = "ConditionalCheckFailedException"
    /\ call[q].op = "Replace" /\ pc[q] = "done" /\ call[q].err = "nil"
    /\ <<call[q].id, call[q].events[1].Version>> = RenameKey(p)
    /\ RenameItem(p) = newDBEvent(call[q].events[1]).e
    /\ RenameItem(p).EventType \notin {call[p].from, call[p].to}

\* C13: when an update of RenameEvent fails, the call stops there and
\* returns the error: the failed step changes no record (the records
\* updated before keep the type they were given), the call makes no step
\* after it, and every update that succeeds changes the one record of its
\* key, in the order of the scan.
C13_RenameStopsAtFailedUpdate ==
  [][\A p \in Procs :
       /\ RenameUpdates(p) =>
            \/ /\ pc'[p] = "done"
               /\ call'[p].err \notin {"nil", "pending"}
               /\ call'[p].i = call[p].i
               /\ store' = store
            \/ /\ call'[p].i = call[p].i + 1
               /\ call'[p].err \in {"nil", "pending"}
               /\ pc'[p] = "done" <=> call'[p].i = Len(call[p].keys)
               /\ \A r \in store :
                    IF <<r.AggregateID, r.Version>> = RenameKey(p)
                      THEN [r EXCEPT !.EventType = call[p].to] \in store'
                      ELSE r \in store'
               /\ Cardinality(store') = Cardinality(store)
       /\ (call[p].op = "RenameEvent" /\ pc[p] = "done") =>
            call'[p] = call[p] /\ pc'[p] = "done"]_vars

\* C13 witness: a RenameEvent over two records has failed at the second;
\* the first has the new type and the second the old one.
C13_Witness ==
  \E p \in Procs :
    /\ call[p].op = "RenameEvent" /\ pc[p] = "done"
    /\ call[p].err \notin {"nil", "pending"}
    /\ Len(call[p].keys) = 2 /\ call[p].i = 1
    /\ call[p].from # call[p].to
    /\ Item(store, call[p].keys[1][1], call[p].keys[1][2]).EventType = call[p].to
    /\ Item(store, call[p].keys[2][1], call[p].keys[2][2]).EventType = call[p].from

\* A step of a RenameEvent of caller p from a type to the same type.
RenameToSame(p) ==
  /\ pc[p] \in {"idle", "RenameEvent"}
  /\ call'[p] # call[p]
  /\ call'[p].op = "RenameEvent"
  /\ call'[p].from = call'[p].to

\* C14: with the calls one after the other, RenameEvent(X, X) leaves the
\* table as it is at every step, and returns success whenever the storage
\* answers its requests.
C14_RenameToSameChangesNothing ==
  [][\A p \in Procs :
       RenameToSame(p) =>
         /\ store' = store
         /\ pc'[p] = "done" => call'[p].err \in {"nil", "StorageError"}]_vars

\* C14 witness: RenameEvent(X, X) has returned success after updating two
\* records of type X, and the table holds a record of another type.
C14_Witness ==
  \E p \in Procs :
    /\ call[p].op = "RenameEvent" /\ pc[p] = "done"
    /\ call[p].err = "nil"
    /\ call[p].from = call[p].to
    /\ call[p].i = 2
    /\ \E r \in store : r.EventType # call[p].from

\* The records of the table whose event_type the step changes.
Retyped ==
  {r \in store : /\ ItemExists(store', r.AggregateID, r.Version)
                 /\ Item(store', r.AggregateID, r.Version).EventType # r.EventType}

\* C15, as claimed: the event_type of a stored record changes in a step of
\* RenameEvent only; no Save and no Replace changes it.
C15_Original_OnlyRenameChangesType ==
  [][Retyped # {} => \E p \in Procs : pc[p] = "RenameEvent"
                                      /\ call'[p] # call[p]]_vars

\* C15, amended: no Save changes the event_type of a stored record; the
\* event_type of a record changes in an update of RenameEvent(from, to),
\* from from to to, or in the put of a Replace, which gives the record the
\* event_type of the event passed to it.
C15_TypeChangesByRenameOrReplace ==
  [][\A r \in Retyped :
       LET new == Item(store', r.AggregateID, r.Version)
       IN \E p \in Procs :
            /\ call'[p] # call[p]
            /\ \/ /\ pc[p] = "RenameEvent"
                  /\ r.EventType = call[p].from
                  /\ new.EventType = call[p].to
               \/ /\ pc[p] = "Replace"
                  /\ SameKey(call[p].events[1], r.AggregateID, r.Version)
                  /\ new.EventType = call[p].events[1].EventType]_vars

\* C15 witness: a Replace has given the record that another caller saved
\* the event_type of its own event.
C15_Witness ==
  \E p \in Procs, q \in Procs :
    /\ call[p].op = "Replace" /\ pc[p] = "done" /\ call[p].err = "nil"
    /\ q \in puts[call[p].id][call[p].events[1].Version]
    /\ EventTypeOf(q) # EventTypeOf(p)
    /\ Item(store, call[p].id, call[p].events[1].Version).EventType = EventTypeOf(p)
    /\ Item(store, call[p].id, call[p].events[1].Version).Metadata = MetadataOf(p)

\* The step in which a Load of caller p reads its aggregate and returns.
LoadReturns(p) == pc[p] = "idle" /\ call'[p].op = "Load"

\* The payload of record r decodes under the type its event_type registers.
Decodes(r) ==
  r.RawData = NilRaw \/ r.RawData[2] = DataTypeOf(r.EventType)

\* C16: a Load whose range read finds a record of an event type without
\* registered data succeeds when the payloads of the records of registered
\* types decode: every record is returned at its place with its fields, the
\* record of the unregistered type with a nil payload, and every other
\* record with its payload decoded.
C16_LoadToleratesUnknownType ==
  [][\A p \in Procs :
       LET db == QueryAll(store, call'[p].id)
           c  == call'[p]
       IN (/\ LoadReturns(p)
           /\ c.resp = "nil"
           /\ \E k \in 1 .. Len(db) : db[k].EventType \notin RegisteredTypes
           /\ \A k \in 1 .. Len(db) :
                db[k].EventType \in RegisteredTypes => Decodes(db[k]))
          => /\ c.err = "nil"
             /\ Len(c.out) = Len(db)
             /\ \A k \in 1 .. Len(db) :
                  /\ c.out[k].EventType = db[k].EventType
                  /\ c.out[k].AggregateID = db[k].AggregateID
                  /\ c.out[k].Version = db[k].Version
                  /\ c.out[k].Timestamp = db[k].Timestamp
                  /\ c.out[k].AggregateType = db[k].AggregateType
                  /\ c.out[k].Metadata = db[k].Metadata
                  /\ db[k].EventType \notin RegisteredTypes
                       => c.out[k].Data = NilData
                  /\ db[k].EventType \in RegisteredTypes
                       => c.out[k].Data = [type |-> DataTypeOf(db[k].EventType),
                                           val  |-> db[k].RawData[3]]]_vars

\* C16 witness: a Load has returned two events, the one of an unregistered
\* type without payload and the other with the payload its writer passed.
C16_Witness ==
  \E p \in Procs, q \in Procs :
    /\ call[p].op = "Load" /\ pc[p] = "done" /\ call[p].err = "nil"
    /\ Len(call[p].out) = 2
    /\ \E k \in 1 .. 2 :
         /\ call[p].out[k].EventType \notin RegisteredTypes
         /\ call[p].out[k].Data = NilData
         /\ call[p].out[k].Version = k
         /\ call[p].out[3 - k].EventType \in RegisteredTypes
         /\ call[p].out[3 - k].Data = DataOf(q)
         /\ call[p].out[3 - k].Metadata = MetadataOf(q)

\* The step is a write of the call of caller p: it changes the table while
\* p is in its call.
WritesBy(p) ==
  /\ store' # store
  /\ call'[p] # call[p]
  /\ call'[p].op \in {"Save", "Replace", "RenameEvent"}

\* C17, as claimed: once the context passed to Save, Replace or RenameEvent
\* is cancelled, the call issues no further write.
C17_Original_NoWriteAfterCancel ==
  [][\A p \in Procs : call[p].ctx = "cancelled" => ~WritesBy(p)]_vars

\* The (aggregate_id, version) keys of the records of a table.
Keys(st) == {<<r.AggregateID, r.Version>> : r \in st}

\* C18: no step removes a key from the table, and a step that adds one is a
\* step of a Save, which adds the key of one event of its batch: Load,
\* LoadAll, Replace and RenameEvent add no key in any outcome.
C18_KeysGrowBySaveOnly ==
  [][/\ Keys(store) \subseteq Keys(store')
     /\ Keys(store') # Keys(store) =>
          \E p \in Procs :
            /\ SaveStep(p)
            /\ \E k \in 1 .. Len(call'[p].events) :
                 Keys(store') \ Keys(store)
                   = {<<call'[p].events[k].AggregateID, call'[p].events[k].Version>>}]_vars

\* C18 witness: a Replace and a RenameEvent have both written, and the keys
\* of the table are those of the records that a Save put.
C18_Witness ==
  \E p \in Procs, q \in Procs :
    /\ call[p].op = "Replace" /\ pc[p] = "done" /\ call[p].err = "nil"
    /\ call[q].op = "RenameEvent" /\ pc[q] = "done" /\ call[q].i >= 1
    /\ call[q].from # call[q].to
    /\ Keys(store) = {k \in Aggs \X Versions : puts[k[1]][k[2]] # {}}
    /\ Cardinality(Keys(store)) >= 2

\* C19: a step of a Save called with originalVersion v and k events leaves
\* every record of the table as it is, and a record it adds is one of its
\* own aggregate at a version of v+1..v+k; and a Save is refused a slot
\* only by a record that a Save on the same aggregate has put there, so
\* Saves on different aggregates never make each other fail.
C19_SaveTouchesOwnSlotsOnly ==
  [][\A p \in Procs :
       SaveStep(p) =>
         LET c == call'[p]
         IN /\ store \subseteq store'
            /\ \A r \in store' \ store :
                 /\ r.AggregateID = c.events[1].AggregateID
                 /\ r.Version \in (c.orig + 1) .. (c.orig + Len(c.events))
            /\ c.resp = "ConditionalCheckFailedException" =>
                 LET e == c.events[c.i + 1]
                 IN /\ e.AggregateID = c.events[1].AggregateID
                    /\ \E q \in Procs \ {p} :
                         /\ q \in puts[e.AggregateID][e.Version]
                         /\ call[q].op = "Save"
                         /\ call[q].events[1].AggregateID = e.AggregateID]_vars

\* C19 witness: a Save of two events on one aggregate and a Save on the
\* other aggregate have both succeeded, and a third Save was refused a slot
\* of the first aggregate; the table holds the three records.
C19_Witness ==
  \E p \in Procs, q \in Procs, r \in Procs :
    /\ SaveDone(p) /\ call[p].err = "nil" /\ Len(call[p].events) = 2
    /\ SaveDone(q) /\ call[q].err = "nil" /\ SaveAgg(q) # SaveAgg(p)
    /\ SaveDone(r) /\ call[r].err = "ErrCouldNotSaveAggregate"
    /\ SaveAgg(r) = SaveAgg(p)
    /\ Cardinality(store) = 3

\* C20: when every Save is called with an originalVersion that a Load of
\* its aggregate has returned the count of (a count the aggregate, a run
\* 1..N of versions, had or has had; 0 for an empty result), the versions
\* stored for every aggregate are a run 1..N without gaps in every state,
\* under any interleaving of the calls and with any Save failing at any
\* event.
C20_LoadedVersionsStayContiguous ==
  (\A p \in Procs : IsSave(p) => FromLoad(p))
    => \A a \in Aggs :
         StoredVersions(store, a) = 1 .. Cardinality(StoredVersions(store, a))

\* C20 witness: three Saves with an originalVersion from a Load have worked
\* on one aggregate, one from a version above 0 and one that a refused put
\* stopped at its second event; the aggregate holds the versions 1..2.
C20_Witness ==
  \E p \in Procs, q \in Procs :
    /\ SaveFailed(p) /\ call[p].i = 1
    /\ \A r \in Procs : IsSave(r) /\ FromLoad(r) /\ SaveAgg(r) = SaveAgg(p)
    /\ call[p].resp = "ConditionalCheckFailedException"
    /\ SaveDone(q) /\ call[q].err = "nil" /\ call[q].orig >= 1
    /\ StoredVersions(store, SaveAgg(p)) = 1 .. 2

====
